---- MODULE Spec2Model ----
(***************************************************************************)
(* Model of the proxy checker's concurrent validation run.                 *)
(*                                                                         *)
(* Two variants of the program exist in the repository:                    *)
(*   "plain"  - proxy_checker.go: main waits for the probes, closes the    *)
(*              result channel, prints the total and returns; the only     *)
(*              consumer of the channel is the goroutine of handleExit.    *)
(*   "signal" - the variant with os/signal: a closer goroutine closes the  *)
(*              channel, main ranges over the channel itself (next to the  *)
(*              goroutine of handleExit), prints the total and then waits  *)
(*              for SIGINT/SIGTERM.                                        *)
(*                                                                         *)
(* Goroutines: main, one probe goroutine per proxy, the consumer started   *)
(* by handleExit, and (signal variant) the closer.  Every statement that   *)
(* touches shared state (channels, WaitGroup, validCount, progress bar,    *)
(* result files) is a step of its own.                                     *)
(***************************************************************************)
EXTENDS Integers, Sequences, FiniteSets, TLC

\* Bounds of the model.
MaxProxies == 2
MaxThreads == 2
MaxContentLen == 5

Variants == {"plain", "signal"}
Protocols == {"https", "socks4", "socks5"}
\* The longest list any specification runs: one proxy more than MaxProxies,
\* for the runs with three increments of validCount in flight at once.
LongList == MaxProxies + 1
ProbeIds == 1..LongList
Failures == {"parseErr", "getErr", "markerAbsent"}
Outcomes == Failures \cup {"markerFound"}

\* Capacity of signalChan: make(chan os.Signal, 1).
SignalChanCap == 1

VARIABLES
    variant,      \* which main is running
    mainPc,       \* position of main
    hePc,         \* position of the goroutine started by handleExit
    closerPc,     \* position of the goroutine running wg.Wait(); close(results)
    probePc,      \* position of each probe goroutine
    outcome,      \* each probe's verdict: "none", "invalid" or "valid"
    tmp,          \* each probe's register in the non-atomic *validCount++
                  \* (0 while the probe is not inside the increment)
    protocol,     \* protocol chosen at the prompt
    threads,      \* thread count chosen at the prompt
    n,            \* len(proxies)
    next,         \* index of the proxy the dispatch loop is at
    results,      \* buffered content of the results channel
    resultsCap,   \* its capacity
    closeCount,   \* number of close(results) executed
    sem,          \* number of tokens in the sem channel
    wg,           \* WaitGroup counter
    validCount,   \* the shared counter
    bar,          \* number of bar.Add(1) calls the progress bar has recorded
    barFinished,  \* bar.Finish() was called: the run is shown as complete
    mainItem,     \* verdict main's range loop holds (<<>>: none)
    heItem,       \* verdict handleExit's loop holds (<<>>: none)
    files,        \* results/<protocol>.valid.txt, as the sequence of lines
    printed,      \* total printed by main (-1: not printed)
    hePrinted,    \* count printed by handleExit's goroutine (-1: not printed)
    notified,     \* signal.Notify has subscribed signalChan
    signalChan,   \* number of signals buffered in signalChan
    interrupted,  \* an interrupt signal was delivered to the process
    sent,         \* history: probes whose verdict was placed on the channel
    crash,        \* "none", or the runtime panic that ended the process
    errorMsg,     \* "none", or the error line main printed before returning
    content,      \* the proxy source's content, a sequence of characters
    loaded,       \* the list the loader returned for content
    reloaded,     \* the list the loader returned for the lines of loaded
    loadPc        \* "start", "loaded" or "reloaded"

\* The loader's variables and those of the run.
loadVars == <<content, loaded, reloaded, loadPc>>
runVars == <<variant, mainPc, hePc, closerPc, probePc, outcome, tmp, protocol,
             threads, n, next, results, resultsCap, closeCount, sem, wg,
             validCount, bar, barFinished, mainItem, heItem, files, printed,
             hePrinted, notified, signalChan, interrupted, sent, crash,
             errorMsg>>
vars == <<runVars, loadVars>>

\* Groups of variables, for UNCHANGED.
cfgVars   == <<variant, protocol, threads, n, loadVars>>
probeVars == <<probePc, outcome, tmp>>
chanVars  == <<results, resultsCap, closeCount, sent>>
consVars  == <<hePc, heItem, files, hePrinted>>
sigVars   == <<notified, signalChan, interrupted>>
barVars   == <<bar, barFinished>>

----------------------------------------------------------------------------
\* Helpers translated from single expressions of the source.

\* A channel one place too small (mutant of ResultsCapacity)
ResultsCapacityShort(len) == len - 1

\* results := make(chan string, len(proxies))
ResultsCapacity(len) == len

\* Off-by-one gates (mutants of SemCanSend)
SemCanSendLoose(held, cap) == held <= cap
SemCanSendTight(held, cap) == held < cap - 1

\* sem <- struct{}{} can proceed: a buffered channel with a free place.  An
\* unbuffered sem (threads = 0) never has one, no goroutine receives before
\* the send.
SemCanSend(held, cap) == held < cap

\* A wait that does not wait (mutant of WaitDone)
WaitDoneEarly(counter) == TRUE

\* wg.Wait() returns
WaitDone(counter) == counter = 0

\* if strings.Contains(responseBody, validString): the only path that sends
IsValid(o) == o = "markerFound"

\* A probe that falls through its error returns (mutant of AfterCheck)
AfterCheckNoReturn(o) == "send"

\* Where checkProxy goes after the check: the three early returns and the
\* failed Contains lead straight to the deferred wg.Done()
AfterCheck(o) == IF IsValid(o) THEN "send" ELSE "wgDone"

\* A goroutine that gives its slot back before it records progress, and one
\* that never gives it back (mutants of AfterReturn)
AfterReturnReleaseFirst(pc) ==
    IF pc = "wgDone" THEN "release"
    ELSE IF pc = "release" THEN "barAdd"
    ELSE "finished"
AfterReturnNoRelease(pc) ==
    IF pc = "wgDone" THEN "barAdd" ELSE "finished"

\* The order of a probe goroutine's last steps: checkProxy returns (its
\* deferred wg.Done() runs), then bar.Add(1), then the goroutine's deferred
\* <-sem, then it is over
AfterReturn(pc) ==
    IF pc = "wgDone" THEN "barAdd"
    ELSE IF pc = "barAdd" THEN "release"
    ELSE "finished"

\* The verdict of a probe: every failure collapses to "invalid"
Verdict(o) == IF IsValid(o) THEN "valid" ELSE "invalid"

\* fmt.Sprintf("%s|%dms", proxy, responseTime) in the plain variant, the bare
\* proxy in the signal variant
Message(v, proxy) == IF v = "plain" THEN <<proxy, "ms">> ELSE <<proxy>>

\* parts := strings.Split(proxyWithTime, "|"); proxy := parts[0]
ProxyOf(msg) == msg[1]

\* The protocol handleExit's goroutine hands to handleValidProxy
HandleExitProtocol(p) == "socks5"

\* An open that truncates (mutant of OpenResultFile)
OpenTruncating(lines) == <<>>

\* os.OpenFile(name, os.O_APPEND|os.O_CREATE|os.O_WRONLY, 0644): the file is
\* created empty if absent (<<>>) and keeps its lines otherwise
OpenResultFile(lines) == lines

\* file.WriteString(proxy + "\n") on a file opened with O_APPEND
AppendLine(f, p, proxy) == [f EXCEPT ![p] = Append(@, proxy)]

\* handleValidProxy drops the error saveValidProxy returns: the range loop
\* goes on to the next verdict whether the save worked or not
AfterSave(ok) == "range"

\* The process is running: main has not returned and nothing has panicked.
Running == mainPc # "exited" /\ crash = "none"

\* The status the process ends with: the Go runtime exits with 0 when main
\* returns (every error path of main is a plain return) and with 2 on a panic
ExitStatus == IF crash # "none" THEN 2 ELSE 0

----------------------------------------------------------------------------
\* The run before main's first statement; earlier is what the result files
\* hold when the process starts (what earlier runs left in them).
RunStart(earlier) ==
    /\ variant \in Variants
    /\ mainPc = "loadConfig"
    /\ hePc = "idle"
    /\ closerPc = "idle"
    /\ probePc = [i \in ProbeIds |-> "idle"]
    /\ outcome = [i \in ProbeIds |-> "none"]
    /\ tmp = [i \in ProbeIds |-> 0]
    /\ protocol = "unset"
    /\ threads = 0
    /\ n = 0
    /\ next = 1
    /\ results = <<>>
    /\ resultsCap = 0
    /\ closeCount = 0
    /\ sem = 0
    /\ wg = 0
    /\ validCount = 0
    /\ bar = 0
    /\ barFinished = FALSE
    /\ mainItem = <<>>
    /\ heItem = <<>>
    /\ files = earlier
    /\ printed = -1
    /\ hePrinted = -1
    /\ notified = FALSE
    /\ signalChan = 0
    /\ interrupted = FALSE
    /\ sent = {}
    /\ crash = "none"
    /\ errorMsg = "none"

\* A first run: no result file exists yet.
RunInit == RunStart([p \in Protocols |-> <<>>])

\* The loader before it is called on a given content.
LoadStart(c) ==
    /\ content = c
    /\ loaded = <<>>
    /\ reloaded = <<>>
    /\ loadPc = "start"

Init == RunInit /\ LoadStart(<<>>)

----------------------------------------------------------------------------
\* main, up to the dispatch loop

\* config, err := loadConfig(); if err != nil { Println; return }
LoadConfig ==
    /\ Running /\ mainPc = "loadConfig"
    /\ \E ok \in BOOLEAN :
          IF ok THEN mainPc' = "prompt" /\ errorMsg' = errorMsg
                ELSE mainPc' = "exited" /\ errorMsg' = "Error loading config"
    /\ UNCHANGED <<cfgVars, probeVars, chanVars, consVars, sigVars, barVars,
                   closerPc, next, sem, wg, validCount, mainItem, printed,
                   crash>>

\* promptInput / promptProtocol / Sscanf of the thread count: any protocol of
\* the menu, any integer thread count (no range check follows the parse)
PromptWith(ps, ts) ==
    /\ Running /\ mainPc = "prompt"
    /\ \E p \in ps, t \in ts :
          /\ protocol' = p
          /\ threads' = t
    /\ mainPc' = "readProxies"
    /\ UNCHANGED <<variant, loadVars, n, probeVars, chanVars, consVars, sigVars,
                   barVars, closerPc, next, sem, wg, validCount, mainItem,
                   printed, errorMsg, crash>>

\* The user's answers: any protocol of the menu, any thread count the parse
\* accepts (negative, zero or positive).
Prompt == PromptWith(Protocols, (-1)..MaxThreads)

\* proxies, err := readProxies(proxyFile); if err != nil { Println; return }
ReadProxiesWith(lens) ==
    /\ Running /\ mainPc = "readProxies"
    /\ \E ok \in BOOLEAN, len \in lens :
          IF ok THEN mainPc' = "setup" /\ n' = len /\ errorMsg' = errorMsg
                ELSE /\ mainPc' = "exited" /\ n' = n
                     /\ errorMsg' = "Error reading proxy list"
    /\ UNCHANGED <<variant, loadVars, protocol, threads, probeVars, chanVars,
                   consVars, sigVars, barVars, closerPc, next, sem, wg,
                   validCount, mainItem, printed, crash>>

\* A proxy file of any length up to the bound.
ReadProxies == ReadProxiesWith(0..MaxProxies)

\* var wg; results := make(chan string, len(proxies)); bar := NewOptions(..);
\* validCount := 0; [signal variant: signal.Notify(signalChan, ...)];
\* handleExit(results, &validCount) starts the consumer goroutine
Setup ==
    /\ Running /\ mainPc = "setup"
    /\ resultsCap' = ResultsCapacity(n)
    /\ validCount' = 0
    /\ notified' = (variant = "signal")
    /\ hePc' = "range"
    /\ mainPc' = "makeSem"
    /\ UNCHANGED <<cfgVars, probeVars, results, closeCount, sent, heItem,
                   files, hePrinted, signalChan, interrupted, barVars,
                   closerPc, next, sem, wg, mainItem, printed, errorMsg, crash>>

\* sem := make(chan struct{}, threads): a negative size panics
MakeSem ==
    /\ Running /\ mainPc = "makeSem"
    /\ IF threads < 0
          THEN crash' = "makechan: size out of range" /\ mainPc' = mainPc
          ELSE crash' = crash /\ mainPc' = "wgAdd"
    /\ UNCHANGED <<cfgVars, probeVars, chanVars, consVars, sigVars, barVars,
                   closerPc, next, sem, wg, validCount, mainItem, printed,
                   errorMsg>>

\* for _, proxy := range proxies { wg.Add(1) ...   (or leave the loop)
WgAdd ==
    /\ Running /\ mainPc = "wgAdd"
    /\ IF next <= n
          THEN wg' = wg + 1 /\ mainPc' = "semSend"
          ELSE wg' = wg /\ mainPc' = IF variant = "plain" THEN "wgWait"
                                                           ELSE "goCloser"
    /\ UNCHANGED <<cfgVars, probeVars, chanVars, consVars, sigVars, barVars,
                   closerPc, next, sem, validCount, mainItem, printed,
                   errorMsg, crash>>

\* sem <- struct{}{}: blocks while the semaphore has no free place
SemSend ==
    /\ Running /\ mainPc = "semSend"
    /\ SemCanSend(sem, threads)
    /\ sem' = sem + 1
    /\ mainPc' = "go"
    /\ UNCHANGED <<cfgVars, probeVars, chanVars, consVars, sigVars, barVars,
                   closerPc, next, wg, validCount, mainItem, printed,
                   errorMsg, crash>>

\* go func(proxy string) { ... }(proxy)
Go ==
    /\ Running /\ mainPc = "go"
    /\ probePc' = [probePc EXCEPT ![next] = "check"]
    /\ next' = next + 1
    /\ mainPc' = "wgAdd"
    /\ UNCHANGED <<cfgVars, outcome, tmp, chanVars, consVars, sigVars,
                   barVars, closerPc, sem, wg, validCount, mainItem, printed,
                   errorMsg,
                   crash>>

----------------------------------------------------------------------------
\* The probe goroutine of proxy i: checkProxy, bar.Add(1), deferred <-sem

\* checkProxy up to the verdict: url.Parse fails, client.Get fails, the marker
\* is absent from the bytes read, or it is found.  Every failure returns.
CheckProxy(i) ==
    /\ Running /\ probePc[i] = "check"
    /\ \E o \in Outcomes :
          /\ outcome' = [outcome EXCEPT ![i] = Verdict(o)]
          /\ probePc' = [probePc EXCEPT ![i] = AfterCheck(o)]
    /\ UNCHANGED <<cfgVars, tmp, chanVars, consVars, sigVars, barVars, mainPc,
                   closerPc, next, sem, wg, validCount, mainItem, printed,
                   errorMsg,
                   crash>>

\* results <- verdict: panics on a closed channel, blocks while it is full
Send(i) ==
    /\ Running /\ probePc[i] = "send"
    /\ IF closeCount > 0
          THEN /\ crash' = "send on closed channel"
               /\ UNCHANGED <<results, sent, probePc>>
          ELSE /\ Len(results) < resultsCap
               /\ results' = Append(results, Message(variant, i))
               /\ sent' = sent \cup {i}
               /\ probePc' = [probePc EXCEPT ![i] = "incRead"]
               /\ crash' = crash
    /\ UNCHANGED <<cfgVars, outcome, tmp, resultsCap, closeCount, consVars,
                   sigVars, barVars, mainPc, closerPc, next, sem, wg,
                   validCount, mainItem, printed, errorMsg>>

\* *validCount++ is a plain load ...
IncRead(i) ==
    /\ Running /\ probePc[i] = "incRead"
    /\ tmp' = [tmp EXCEPT ![i] = validCount]
    /\ probePc' = [probePc EXCEPT ![i] = "incWrite"]
    /\ UNCHANGED <<cfgVars, outcome, chanVars, consVars, sigVars, barVars,
                   mainPc, closerPc, next, sem, wg, validCount, mainItem,
                   printed, errorMsg, crash>>

\* ... followed by a plain store
IncWrite(i) ==
    /\ Running /\ probePc[i] = "incWrite"
    /\ validCount' = tmp[i] + 1
    /\ tmp' = [tmp EXCEPT ![i] = 0]
    /\ probePc' = [probePc EXCEPT ![i] = "wgDone"]
    /\ UNCHANGED <<cfgVars, outcome, chanVars, consVars, sigVars,
                   barVars, mainPc, closerPc, next, sem, wg, mainItem,
                   printed, errorMsg, crash>>

\* defer wg.Done(), run when checkProxy returns
WgDone(i) ==
    /\ Running /\ probePc[i] = "wgDone"
    /\ wg' = wg - 1
    /\ probePc' = [probePc EXCEPT ![i] = AfterReturn("wgDone")]
    /\ UNCHANGED <<cfgVars, outcome, tmp, chanVars, consVars, sigVars,
                   barVars, mainPc, closerPc, next, sem, validCount, mainItem,
                   printed, errorMsg, crash>>

\* bar.Add(1)
BarAdd(i) ==
    /\ Running /\ probePc[i] = "barAdd"
    /\ bar' = bar + 1
    /\ probePc' = [probePc EXCEPT ![i] = AfterReturn("barAdd")]
    /\ UNCHANGED <<cfgVars, outcome, tmp, chanVars, consVars, sigVars,
                   barFinished, mainPc, closerPc, next, sem, wg, validCount,
                   mainItem, printed, errorMsg, crash>>

\* defer func() { <-sem }()
Release(i) ==
    /\ Running /\ probePc[i] = "release"
    /\ sem' = sem - 1
    /\ probePc' = [probePc EXCEPT ![i] = AfterReturn("release")]
    /\ UNCHANGED <<cfgVars, outcome, tmp, chanVars, consVars, sigVars,
                   barVars, mainPc, closerPc, next, wg, validCount, mainItem,
                   printed, errorMsg, crash>>

----------------------------------------------------------------------------
\* The goroutine started by handleExit

\* for proxy := range results: take a verdict, or leave on a closed and
\* drained channel
HandleExitRange ==
    /\ Running /\ hePc = "range"
    /\ IF Len(results) > 0
          THEN /\ heItem' = Head(results)
               /\ results' = Tail(results)
               /\ hePc' = "handle"
          ELSE /\ closeCount > 0
               /\ hePc' = "print"
               /\ UNCHANGED <<heItem, results>>
    /\ UNCHANGED <<cfgVars, probeVars, resultsCap, closeCount, sent, files,
                   hePrinted, sigVars, barVars, mainPc, closerPc, next, sem,
                   wg, validCount, mainItem, printed, errorMsg, crash>>

\* handleValidProxy("socks5", proxy) up to saveValidProxy's os.OpenFile: on
\* an error saveValidProxy returns it and nothing is written
HandleExitOpen ==
    /\ Running /\ hePc = "handle"
    /\ \E ok \in BOOLEAN :
          IF ok THEN /\ files' = [files EXCEPT ![HandleExitProtocol(protocol)]
                                                    = OpenResultFile(@)]
                     /\ hePc' = "write"
                     /\ heItem' = heItem
                ELSE /\ files' = files
                     /\ hePc' = AfterSave(FALSE)
                     /\ heItem' = <<>>
    /\ UNCHANGED <<cfgVars, probeVars, chanVars, hePrinted, sigVars, barVars,
                   mainPc, closerPc, next, sem, wg, validCount, mainItem,
                   printed, errorMsg, crash>>

\* saveValidProxy's file.WriteString(proxy + "\n") and deferred file.Close()
HandleExitWrite ==
    /\ Running /\ hePc = "write"
    /\ \E ok \in BOOLEAN :
          /\ files' = IF ok THEN AppendLine(files, HandleExitProtocol(protocol),
                                            ProxyOf(heItem))
                            ELSE files
          /\ hePc' = AfterSave(ok)
    /\ heItem' = <<>>
    /\ UNCHANGED <<cfgVars, probeVars, chanVars, hePrinted, sigVars, barVars,
                   mainPc, closerPc, next, sem, wg, validCount, mainItem,
                   printed, errorMsg, crash>>

\* fmt.Printf("\nSaved %d valid proxies to file\n", *validCount)
HandleExitPrint ==
    /\ Running /\ hePc = "print"
    /\ hePrinted' = validCount
    /\ hePc' = "finished"
    /\ UNCHANGED <<cfgVars, probeVars, chanVars, heItem, files, sigVars,
                   barVars, mainPc, closerPc, next, sem, wg, validCount,
                   mainItem, printed, errorMsg, crash>>

----------------------------------------------------------------------------
\* close(results): closing a closed channel panics
CloseResults ==
    IF closeCount > 0
       THEN crash' = "close of closed channel" /\ closeCount' = closeCount
       ELSE crash' = crash /\ closeCount' = closeCount + 1

\* main after the dispatch loop, plain variant

\* wg.Wait()
WgWait ==
    /\ Running /\ mainPc = "wgWait"
    /\ WaitDone(wg)
    /\ mainPc' = "close"
    /\ UNCHANGED <<cfgVars, probeVars, chanVars, consVars, sigVars, barVars,
                   closerPc, next, sem, wg, validCount, mainItem, printed,
                   errorMsg,
                   crash>>

\* close(results)
MainClose ==
    /\ Running /\ mainPc = "close"
    /\ CloseResults
    /\ mainPc' = "barFinish"
    /\ UNCHANGED <<cfgVars, probeVars, results, resultsCap, sent, consVars,
                   sigVars, barVars, closerPc, next, sem, wg, validCount,
                   mainItem, printed, errorMsg>>

\* bar.Finish() (both variants)
BarFinish ==
    /\ Running /\ mainPc = "barFinish"
    /\ barFinished' = TRUE
    /\ mainPc' = "print"
    /\ UNCHANGED <<cfgVars, probeVars, chanVars, consVars, sigVars, closerPc,
                   bar, next, sem, wg, validCount, mainItem, printed,
                   errorMsg, crash>>

\* fmt.Printf("\nTotal ... proxies found: %d\n", validCount); the plain main
\* then returns, the signal variant goes on to <-signalChan
PrintTotal ==
    /\ Running /\ mainPc = "print"
    /\ printed' = validCount
    /\ mainPc' = IF variant = "plain" THEN "exited" ELSE "waitSignal"
    /\ UNCHANGED <<cfgVars, probeVars, chanVars, consVars, sigVars, barVars,
                   closerPc, next, sem, wg, validCount, mainItem, errorMsg,
                   crash>>

----------------------------------------------------------------------------
\* main after the dispatch loop, signal variant

\* go func() { wg.Wait(); close(results) }()
GoCloser ==
    /\ Running /\ mainPc = "goCloser"
    /\ closerPc' = "wait"
    /\ mainPc' = "range"
    /\ UNCHANGED <<cfgVars, probeVars, chanVars, consVars, sigVars, barVars,
                   next, sem, wg, validCount, mainItem, printed,
                   errorMsg, crash>>

\* the closer's wg.Wait()
CloserWait ==
    /\ Running /\ closerPc = "wait"
    /\ WaitDone(wg)
    /\ closerPc' = "close"
    /\ UNCHANGED <<cfgVars, probeVars, chanVars, consVars, sigVars, barVars,
                   mainPc, next, sem, wg, validCount, mainItem, printed,
                   errorMsg,
                   crash>>

\* the closer's close(results)
CloserClose ==
    /\ Running /\ closerPc = "close"
    /\ CloseResults
    /\ closerPc' = "finished"
    /\ UNCHANGED <<cfgVars, probeVars, results, resultsCap, sent, consVars,
                   sigVars, barVars, mainPc, next, sem, wg, validCount,
                   mainItem, printed, errorMsg>>

\* main's for proxy := range results
MainRange ==
    /\ Running /\ mainPc = "range"
    /\ IF Len(results) > 0
          THEN /\ mainItem' = Head(results)
               /\ results' = Tail(results)
               /\ mainPc' = "handle"
          ELSE /\ closeCount > 0
               /\ mainPc' = "barFinish"
               /\ UNCHANGED <<mainItem, results>>
    /\ UNCHANGED <<cfgVars, probeVars, resultsCap, closeCount, sent, consVars,
                   sigVars, barVars, closerPc, next, sem, wg, validCount,
                   printed, errorMsg, crash>>

\* main's handleValidProxy(protocol, proxy) up to saveValidProxy's os.OpenFile
MainOpen ==
    /\ Running /\ mainPc = "handle"
    /\ \E ok \in BOOLEAN :
          IF ok THEN /\ files' = [files EXCEPT ![protocol] = OpenResultFile(@)]
                     /\ mainPc' = "write"
                     /\ mainItem' = mainItem
                ELSE /\ files' = files
                     /\ mainPc' = AfterSave(FALSE)
                     /\ mainItem' = <<>>
    /\ UNCHANGED <<cfgVars, probeVars, chanVars, hePc, heItem, hePrinted,
                   sigVars, barVars, closerPc, next, sem, wg, validCount,
                   printed, errorMsg, crash>>

\* main's saveValidProxy: file.WriteString(proxy + "\n"), file.Close()
MainWrite ==
    /\ Running /\ mainPc = "write"
    /\ \E ok \in BOOLEAN :
          /\ files' = IF ok THEN AppendLine(files, protocol, ProxyOf(mainItem))
                            ELSE files
          /\ mainPc' = AfterSave(ok)
    /\ mainItem' = <<>>
    /\ UNCHANGED <<cfgVars, probeVars, chanVars, hePc, heItem, hePrinted,
                   sigVars, barVars, closerPc, next, sem, wg, validCount,
                   printed, errorMsg, crash>>

\* <-signalChan; Println("Graceful shutdown initiated, proxies saved."); return
WaitSignal ==
    /\ Running /\ mainPc = "waitSignal"
    /\ signalChan > 0
    /\ signalChan' = signalChan - 1
    /\ mainPc' = "exited"
    /\ UNCHANGED <<cfgVars, probeVars, chanVars, consVars, notified,
                   interrupted, barVars, closerPc, next, sem, wg, validCount,
                   mainItem, printed, errorMsg, crash>>

\* Environment: SIGINT or SIGTERM reaches the process once signal.Notify has
\* subscribed signalChan; the runtime's send does not block, a signal that
\* finds the buffer full is dropped.  (Without a subscription - the plain
\* variant, or before signal.Notify - the runtime's default ends the process
\* at once; that abrupt end is not a step of this model.)
Interrupt ==
    /\ Running /\ notified
    /\ signalChan < SignalChanCap
    /\ signalChan' = signalChan + 1
    /\ interrupted' = TRUE
    /\ UNCHANGED <<cfgVars, probeVars, chanVars, consVars, notified, barVars,
                   mainPc, closerPc, next, sem, wg, validCount, mainItem,
                   printed, errorMsg, crash>>

----------------------------------------------------------------------------
\* main's steps other than reading its inputs
MainRest ==
    \/ LoadConfig \/ Setup \/ MakeSem
    \/ WgAdd \/ SemSend \/ Go
    \/ WgWait \/ MainClose \/ BarFinish \/ PrintTotal
    \/ GoCloser \/ MainRange \/ MainOpen \/ MainWrite \/ WaitSignal

MainStep == Prompt \/ ReadProxies \/ MainRest

ProbeStep(i) ==
    \/ CheckProxy(i) \/ Send(i) \/ IncRead(i) \/ IncWrite(i)
    \/ WgDone(i) \/ BarAdd(i) \/ Release(i)

HandleExitStep ==
    HandleExitRange \/ HandleExitOpen \/ HandleExitWrite \/ HandleExitPrint

CloserStep == CloserWait \/ CloserClose

\* Every step of the program itself (the environment's Interrupt excluded).
ProgramStep ==
    \/ MainStep
    \/ \E i \in ProbeIds : ProbeStep(i)
    \/ HandleExitStep
    \/ CloserStep

Next == ProgramStep \/ Interrupt

Spec == Init /\ [][Next]_vars

\* The Go scheduler runs every runnable goroutine eventually; nothing obliges
\* the environment to send a signal.
FairSpec ==
    /\ Spec
    /\ WF_vars(MainStep)
    /\ \A i \in ProbeIds : WF_vars(ProbeStep(i))
    /\ WF_vars(HandleExitStep)
    /\ WF_vars(CloserStep)

----------------------------------------------------------------------------
\* A run that finds result files left by earlier runs.  An earlier run over
\* the same list may have saved proxy 1 already.

EarlierContents == {<<>>, <<1>>}

PersistInit ==
    /\ \E earlier \in [Protocols -> EarlierContents] : RunStart(earlier)
    /\ LoadStart(<<>>)

\* The run itself, its probes taken one at a time (thread count 1): what the
\* files receive does not depend on how many probes overlap.
PersistNext ==
    \/ PromptWith(Protocols, {1})
    \/ ReadProxies
    \/ MainRest
    \/ \E i \in ProbeIds : ProbeStep(i)
    \/ HandleExitStep
    \/ CloserStep
    \/ Interrupt

PersistSpec == PersistInit /\ [][PersistNext]_vars

----------------------------------------------------------------------------
\* The runs over a list of LongList proxies with as many threads, so that every
\* probe of the list can be inside *validCount++ at the same time.

RaceNext ==
    \/ PromptWith({"socks5"}, {LongList})
    \/ ReadProxiesWith({LongList})
    \/ MainRest
    \/ \E i \in ProbeIds : ProbeStep(i)
    \/ HandleExitStep
    \/ CloserStep
    \/ Interrupt

RaceSpec == Init /\ [][RaceNext]_vars

----------------------------------------------------------------------------
\* The proxy source loaders.  A content is a sequence of characters; "LF" is
\* the line break, "SP" a blank.

Chars == {"LF", "SP", "a", "b"}
Contents == UNION {[1..k -> Chars] : k \in 0..MaxContentLen}

\* unicode.IsSpace, on the characters of the model
IsSpace(c) == c \in {"LF", "SP"}

\* Position of the first line break of s, 0 if it has none
FirstBreak(s) ==
    IF \E k \in 1..Len(s) : s[k] = "LF"
       THEN CHOOSE k \in 1..Len(s) : s[k] = "LF" /\ \A j \in 1..(k - 1) : s[j] # "LF"
       ELSE 0

\* strings.Split(content, "\n"): one piece more than there are line breaks
RECURSIVE SplitLines(_)
SplitLines(s) ==
    IF FirstBreak(s) = 0 THEN <<s>>
    ELSE <<SubSeq(s, 1, FirstBreak(s) - 1)>>
            \o SplitLines(SubSeq(s, FirstBreak(s) + 1, Len(s)))

\* bufio.Scanner with ScanLines: the lines of the file, no empty token after
\* a final line break
RECURSIVE ScanLines(_)
ScanLines(s) ==
    IF s = <<>> THEN <<>>
    ELSE IF FirstBreak(s) = 0 THEN <<s>>
    ELSE <<SubSeq(s, 1, FirstBreak(s) - 1)>>
            \o ScanLines(SubSeq(s, FirstBreak(s) + 1, Len(s)))

\* strings.TrimSpace
RECURSIVE TrimLeft(_)
TrimLeft(l) == IF l # <<>> /\ IsSpace(Head(l)) THEN TrimLeft(Tail(l)) ELSE l
RECURSIVE TrimRight(_)
TrimRight(l) ==
    IF l # <<>> /\ IsSpace(l[Len(l)]) THEN TrimRight(SubSeq(l, 1, Len(l) - 1))
    ELSE l
TrimSpace(l) == TrimRight(TrimLeft(l))

\* The elements of a sequence
Range(q) == {q[k] : k \in 1..Len(q)}

\* extractProxies, lines 105-110: proxySet after the loop over the lines
ProxySet(c) ==
    {TrimSpace(l) : l \in Range(SplitLines(c))} \ {<<>>}

\* extractProxies, lines 112-117: the keys of proxySet in the order the map
\* iteration yields them, which is any order
ExtractProxies(c) ==
    {q \in [1..Cardinality(ProxySet(c)) -> ProxySet(c)] : Range(q) = ProxySet(c)}

\* readProxies of the signal variant: every trimmed non-empty line of the
\* file, appended in file order
RECURSIVE KeepNonEmpty(_)
KeepNonEmpty(ls) ==
    IF ls = <<>> THEN <<>>
    ELSE IF TrimSpace(Head(ls)) # <<>>
            THEN <<TrimSpace(Head(ls))>> \o KeepNonEmpty(Tail(ls))
            ELSE KeepNonEmpty(Tail(ls))
ScanProxies(c) == KeepNonEmpty(ScanLines(c))

\* What readProxies can return for a content, by variant
ReadProxiesResults(v, c) ==
    IF v = "plain" THEN ExtractProxies(c) ELSE {ScanProxies(c)}

\* A list written back one address per line
RECURSIVE JoinLines(_)
JoinLines(ls) ==
    IF ls = <<>> THEN <<>>
    ELSE IF Len(ls) = 1 THEN Head(ls)
    ELSE Head(ls) \o <<"LF">> \o JoinLines(Tail(ls))

\* readProxies applied to the content
Load ==
    /\ loadPc = "start"
    /\ \E l \in ReadProxiesResults(variant, content) : loaded' = l
    /\ loadPc' = "loaded"
    /\ UNCHANGED <<runVars, content, reloaded>>

\* readProxies applied to the lines of the list it returned
Reload ==
    /\ loadPc = "loaded"
    /\ \E l \in ReadProxiesResults(variant, JoinLines(loaded)) : reloaded' = l
    /\ loadPc' = "reloaded"
    /\ UNCHANGED <<runVars, content, loaded>>

LoadInit == RunInit /\ \E c \in Contents : LoadStart(c)

LoadNext == Load \/ Reload

\* The loader alone, on every content within the bound.
LoadSpec == LoadInit /\ [][LoadNext]_vars

----------------------------------------------------------------------------
\* Derived notions used by the properties

\* Probe goroutines that have been started and have not released their slot
InFlight == {i \in ProbeIds : probePc[i] \notin {"idle", "finished"}}

\* Probes whose checkProxy has returned (its deferred wg.Done() has run)
Returned == {i \in ProbeIds : probePc[i] \in {"barAdd", "release", "finished"}}

\* main is in or past the dispatch loop
PreDispatch == {"loadConfig", "prompt", "readProxies", "setup", "makeSem"}
Dispatching == mainPc \notin PreDispatch /\ (mainPc = "exited" => printed # -1)

\* Lines written to all result files together
RECURSIVE TotalLen(_, _)
TotalLen(f, ps) ==
    IF ps = {} THEN 0
    ELSE LET p == CHOOSE q \in ps : TRUE
         IN  Len(f[p]) + TotalLen(f, ps \ {p})
TotalLines == TotalLen(files, Protocols)

----------------------------------------------------------------------------
\* C1: with a limit >= 1, at no time are more probe goroutines running than
\* the limit allows; with limit 1 the probes run strictly one at a time.
C1_BoundedConcurrency ==
    threads >= 1 => Cardinality(InFlight) <= threads

\* The gate is at work: the limit is reached and main is blocked on the
\* semaphore with a further proxy to dispatch.
C1_Witness ==
    /\ threads >= 1
    /\ Cardinality(InFlight) = threads
    /\ mainPc = "semSend"
    /\ next <= n

\* C2 (as claimed): the total main prints equals the number of verdicts placed
\* on the result channel.
C2_FinalCountEqualsSent ==
    printed # -1 => printed = Cardinality(sent)

\* C3: the result channel is closed once, only after every probe of the list
\* has returned from checkProxy, so no probe sends on the closed channel; and
\* once the dispatch loop is through and every probe has returned, the channel
\* is eventually closed.
C3_CloseAfterProbes ==
    /\ [](closeCount > 0 => (next > n /\ \A i \in 1..n : i \in Returned))
    /\ [](crash \notin {"send on closed channel", "close of closed channel"})
    /\ [](closeCount <= 1)
    /\ ((Dispatching /\ next > n /\ \A i \in 1..n : i \in Returned)
            ~> (closeCount = 1))

\* The channel is closed after verdicts were sent on it.
C3_Witness ==
    /\ closeCount = 1
    /\ n = MaxProxies
    /\ sent = 1..n

\* C4 (as claimed): when main returns after a run, the number of lines
\* appended to the result files equals the number of verdicts sent.
C4_SavedOncePerVerdict ==
    (mainPc = "exited" /\ printed # -1) => TotalLines = Cardinality(sent)

C6_RejectsNonPositiveLimit ==
    threads <= 0 => (mainPc \in PreDispatch \cup {"exited"}
                     /\ crash = "none" /\ printed = -1)

\* C7 (as claimed): only the file of the chosen protocol receives lines.
C7_OnlyOwnProtocolFile ==
    \A p \in Protocols : p # protocol => files[p] = <<>>

\* C8: a probe with an invalid verdict has sent nothing, is never inside the
\* send or the increment, leaves validCount to the valid probes, and still
\* calls wg.Done(); it crashes nothing, and when main prints the total every
\* proxy of the list has been probed and has returned.
C8_FailureIsSilent ==
    /\ \A i \in ProbeIds :
          outcome[i] = "invalid" =>
             /\ i \notin sent
             /\ probePc[i] \in {"wgDone", "barAdd", "release", "finished"}
    /\ validCount <= Cardinality({i \in ProbeIds : outcome[i] = "valid"})
    /\ Cardinality(sent) <= Cardinality({i \in ProbeIds : outcome[i] = "valid"})
    /\ wg = (next - 1) + (IF mainPc \in {"semSend", "go"} THEN 1 ELSE 0)
              - Cardinality(Returned)
    /\ (threads >= 0 => crash = "none")
    /\ printed # -1 => \A i \in 1..n : outcome[i] # "none" /\ i \in Returned

\* A failed probe and a valid one in the same run, which ran to its total.
C8_Witness ==
    /\ n = 2
    /\ outcome[1] = "invalid"
    /\ outcome[2] = "valid"
    /\ sent = {2}
    /\ printed = 1

\* C9 (as claimed): once an interrupt was delivered, the dispatch loop starts
\* no further probe.
C9_NoDispatchAfterInterrupt ==
    [][interrupted => next' = next]_vars

\* C10: the channel holds at most capacity = len(proxies) verdicts, and a
\* probe that is about to send always finds a free place.
C10_SendNeverBlocks ==
    /\ Len(results) <= resultsCap
    /\ mainPc \notin {"loadConfig", "prompt", "readProxies", "setup"}
          => resultsCap = n
    /\ \A i \in ProbeIds : probePc[i] = "send" => Len(results) < resultsCap

\* The aggregator is slow: a probe sends while an earlier verdict is still
\* buffered.
C10_Witness ==
    /\ n >= 2
    /\ Len(results) = n - 1
    /\ \E i \in ProbeIds : probePc[i] = "send"

\* How often x occurs in the sequence q
Occurrences(q, x) == Cardinality({k \in 1..Len(q) : q[k] = x})

\* C11 (as claimed): the loaded list holds each trimmed non-empty line of the
\* content exactly once and nothing else, and loading the lines of a loaded
\* list yields the same set.
C11_LoadDeduplicates ==
    /\ loadPc # "start" =>
          /\ Range(loaded) = ProxySet(content)
          /\ \A x \in Range(loaded) : Occurrences(loaded, x) = 1
    /\ loadPc = "reloaded" =>
          /\ Range(reloaded) = Range(loaded)
          /\ \A x \in Range(reloaded) : Occurrences(reloaded, x) = 1

\* a is an initial segment of b
IsPrefix(a, b) == Len(a) <= Len(b) /\ SubSeq(b, 1, Len(a)) = a

\* C12: no step of a run removes or changes a line a result file already
\* holds, those left by earlier runs included: every file only grows at its
\* end.
C12_AppendOnly ==
    [][\A p \in Protocols : IsPrefix(files[p], files'[p])]_vars

\* A re-run over the same list: the file held proxy 1 from an earlier run and
\* this run appended both of its verdicts behind it.
C12_Witness ==
    /\ variant = "plain"
    /\ printed # -1
    /\ files["socks5"] = <<1, 1, 2>>

\* Proxies whose verdict is waiting in the result channel
InChannel == {ProxyOf(results[k]) : k \in 1..Len(results)}

\* Verdicts sent and taken off the channel whose save is over (no aggregator
\* holds them any more)
Consumed ==
    {i \in sent \ InChannel : /\ (heItem # <<>> => ProxyOf(heItem) # i)
                              /\ (mainItem # <<>> => ProxyOf(mainItem) # i)}

\* Consumed verdicts that reached no file: their save failed
FailedSaves == {i \in Consumed : \A p \in Protocols : i \notin Range(files[p])}

\* C13 (as claimed): a save that fails (at the open or at the write) sends
\* the aggregator back to its receive, in handleExit's loop and in main's; an
\* aggregator leaves its loop only when the channel is closed and drained;
\* and after a failed save every verdict waiting in the channel is eventually
\* received.
C13_SaveFailureDoesNotStop ==
    /\ [][/\ (hePc = "handle" /\ hePc' # hePc) => hePc' \in {"write", "range"}
          /\ (hePc = "write" /\ hePc' # hePc) => hePc' = "range"
          /\ (mainPc = "handle" /\ mainPc' # mainPc)
                => mainPc' \in {"write", "range"}
          /\ (mainPc = "write" /\ mainPc' # mainPc) => mainPc' = "range"]_vars
    /\ [](hePc \in {"print", "finished"}
            => (closeCount = 1 /\ results = <<>>))
    /\ []((variant = "signal" /\ printed # -1)
            => (closeCount = 1 /\ results = <<>>))
    /\ \A i \in ProbeIds :
          (FailedSaves # {} /\ i \in InChannel) ~> (i \notin InChannel)

\* C14 (as claimed): when main has reported a fatal error (the configuration
\* or the proxy list could not be loaded), the run is over, no probe was
\* started, no result file was written, and the process ends with a non-zero
\* status.
C14_FatalErrorAborts ==
    errorMsg # "none" =>
       /\ mainPc = "exited"
       /\ next = 1
       /\ \A i \in ProbeIds : probePc[i] = "idle"
       /\ TotalLines = 0
       /\ ExitStatus # 0

\* Probes whose bar.Add(1) has run
Recorded == {i \in ProbeIds : probePc[i] \in {"release", "finished"}}

\* Probes that were started and whose bar.Add(1) has not run yet
Unrecorded ==
    {i \in ProbeIds : probePc[i] \notin {"idle", "release", "finished"}}

\* C15: a probe gives its slot back only after its result is recorded: a valid
\* probe has sent its verdict before its progress is counted, the bar has
\* counted exactly the probes that are at or past the release, the held slots
\* are at least the started probes not yet counted, and the bar never shows
\* more than the number of probes dispatched.
C15_ReleaseAfterRecorded ==
    /\ \A i \in ProbeIds :
          (outcome[i] = "valid" /\ i \in Returned) => i \in sent
    /\ bar = Cardinality(Recorded)
    /\ sem >= Cardinality(Unrecorded)
    /\ bar <= next - 1

\* A valid probe has sent and been counted and still holds its slot, while
\* main waits for a free slot to dispatch the next proxy.
C15_Witness ==
    /\ \E i \in ProbeIds : probePc[i] = "release" /\ i \in sent
    /\ bar >= 1
    /\ threads >= 1
    /\ sem = threads
    /\ mainPc = "semSend"

\* C16 (as claimed): the handleExit goroutine and main never both have the
\* same result file open inside saveValidProxy, each about to write its line.
C16_OneWriterPerFile ==
    ~(/\ hePc = "write"
      /\ mainPc = "write"
      /\ HandleExitProtocol(protocol) = protocol)

\* C17: the slots held are exactly those of the probes that have not finished
\* (the probe main has acquired a slot for and is about to start with its go
\* statement counts as such), whatever the probe's verdict; once every probe
\* of the list has finished no slot is held.
C17_SlotsConserved ==
    /\ sem = Cardinality(InFlight) + (IF mainPc = "go" THEN 1 ELSE 0)
    /\ (next > n /\ \A i \in 1..n : probePc[i] = "finished") => sem = 0

\* A failed probe and a valid one have both finished and every slot is free.
C17_Witness ==
    /\ n >= 2
    /\ next > n
    /\ \A i \in 1..n : probePc[i] = "finished"
    /\ outcome[1] = "invalid"
    /\ outcome[2] = "valid"
    /\ sem = 0

\* C18 (as claimed): validCount never exceeds the number of verdicts placed
\* on the channel, and no step makes it smaller.
C18_CountBoundedAndMonotone ==
    /\ [](validCount <= Cardinality(sent))
    /\ [][validCount' >= validCount]_vars

\* C19 (as claimed): once main has called bar.Finish(), every probe of the
\* list has run its bar.Add(1): the bar has counted all n of them.
C19_ProgressCompleteAtFinish ==
    barFinished => (bar = n /\ \A i \in 1..n : i \in Recorded)

====
